---- MODULE Spec2Model ----
(***************************************************************************)
(* pythonwf: condition-dependency resolver (SQLConstructor) and waterfall  *)
(* query compiler (WaterfallSQLConstructor).                               *)
(*                                                                         *)
(* Strings that take part in column naming are modelled as the list of     *)
(* their segments between underscores ("promoA_seg1" is                    *)
(* <<"promoA", "seg1">>), so that "{a}_{b}".format(...) is the             *)
(* concatenation of the segment lists and two formatted names are equal    *)
(* exactly when the Python strings are equal.                              *)
(***************************************************************************)
EXTENDS Integers, Sequences, FiniteSets, TLC

VARIABLES
    conditions,                  \* SQLConstructor._conditions (the hierarchy)
    conditions_column_mappings,  \* SQLConstructor._conditions_column_mappings (dict, insertion order)
    parsed_unique_identifiers,   \* SQLConstructor._parsed_unique_identifiers
    remaining_sql,               \* WaterfallSQLConstructor._remaining_sql
    incremental_drops_sql,       \* WaterfallSQLConstructor._incremental_drops_sql
    unique_drops_sql,            \* WaterfallSQLConstructor._unique_drops_sql
    regain_sql,                  \* WaterfallSQLConstructor._regain_sql
    detail_tables,               \* the per-grain detail tables held by the database
    query_results,               \* Waterfall._query_results
    compiled_dataframes,         \* Waterfall._compiled_dataframes
    starting_population,         \* Waterfall._starting_population
    report,                      \* the report file written by _step4_create_excel
    raised,                      \* the exception that reached the caller of the pipeline
    issued,                      \* the queries handed to the executor, in order
    unique_identifiers,          \* SQLConstructor._unique_identifiers
    eligibility_sql,             \* EligibilitySQLConstructor._eligibility_sql
    waterfall_constructor,       \* SQLConstructor._WaterfallSQLConstructor
    eligible_constructor,        \* SQLConstructor._EligibilitySQLConstructor
    first_run,                   \* the output of an earlier run over the same hierarchy
    tables,                      \* the table declaration handed to Eligible / SQLConstructor
    verdict,                     \* what the last validator call did: returned or raised
    runs,                        \* the calls of generate_waterfall on the Waterfall object
    backend_tables,              \* SQLConstructor._backend_tables
    tracked_tables,              \* TrackSQL.tracked_tables
    cleanups,                    \* the runs of TrackSQL.clean_up, with their DROP attempts
    hooks,                       \* the atexit registrations of TeradataHandler.cleanup not yet run
    context,                     \* TeradataHandler.context is set
    handler,                     \* the life of the TeradataHandler: live, exiting, deleted
    pc                           \* position of the caller in the pipeline

vars == <<conditions, conditions_column_mappings, parsed_unique_identifiers, remaining_sql,
          incremental_drops_sql, unique_drops_sql, regain_sql, detail_tables, query_results,
          compiled_dataframes, starting_population, report, raised, issued,
          unique_identifiers, eligibility_sql, waterfall_constructor, eligible_constructor,
          first_run, tables, verdict, runs, backend_tables, tracked_tables, cleanups,
          hooks, context, handler, pc>>

constructor_vars == <<unique_identifiers, eligibility_sql, waterfall_constructor,
                      eligible_constructor, first_run>>

report_vars == <<compiled_dataframes, starting_population, report, raised>>

handler_vars == <<tracked_tables, cleanups, hooks, context, handler>>

extra_vars == <<tables, verdict, runs, backend_tables, handler_vars>>

----------------------------------------------------------------------------
(* Bounds of the model *)

MaxChannels == 3
MaxTemplates == 2
MaxChecks == 2
MaxTotalChecks == 3
MaxTotalTemplates == 3

----------------------------------------------------------------------------
(* Names *)

None == <<>>
Main == <<"main">>
BA == <<"BA">>

ChannelNames == {<<"main">>, <<"promoA">>, <<"promoA", "seg1">>}
TemplateNames == {<<"BA">>, <<"seg1">>, <<"seg1", "BA">>}

----------------------------------------------------------------------------
(* Generic helpers on sequences *)

Range(s) == {s[i] : i \in DOMAIN s}

Distinct(s) == \A i, j \in DOMAIN s : i /= j => s[i] /= s[j]

SeqsBetween(S, lo, hi) == UNION {[1..n -> S] : n \in lo..hi}

RECURSIVE Flatten(_)
Flatten(ss) == IF ss = <<>> THEN <<>> ELSE Head(ss) \o Flatten(Tail(ss))

RECURSIVE SelectNew(_, _)
\* appends to acc the elements of s that are not yet in it, in order
SelectNew(acc, s) ==
    IF s = <<>> THEN acc
    ELSE IF Head(s) \in Range(acc) THEN SelectNew(acc, Tail(s))
         ELSE SelectNew(Append(acc, Head(s)), Tail(s))

RECURSIVE RemoveFirst(_, _)
\* list.remove(x): drops the first occurrence of x
RemoveFirst(s, x) ==
    IF s = <<>> THEN <<>>
    ELSE IF Head(s) = x THEN Tail(s)
         ELSE <<Head(s)>> \o RemoveFirst(Tail(s), x)

IndexOf(s, x) == CHOOSE i \in DOMAIN s : s[i] = x /\ \A j \in 1..(i - 1) : s[j] /= x

Permutations_(S) ==
    {s \in [1..Cardinality(S) -> S] : \A x \in S : \E i \in DOMAIN s : s[i] = x}

----------------------------------------------------------------------------
(* The input hierarchies: channel -> template -> list of checks.            *)
(* 'main' comes first and carries the single template 'BA' without output  *)
(* checks; in the other channels only the last check of a template may be  *)
(* an output check (validate_conditions).                                  *)

NumChecks(templates) == Len(Flatten([j \in DOMAIN templates |-> templates[j].checks]))

RawChecks(n, last_output) ==
    [k \in 1..n |-> [output |-> (k = n /\ last_output), column_name |-> None]]

CheckLists(maxK) ==
    {RawChecks(n, FALSE) : n \in 0..maxK} \cup {RawChecks(n, TRUE) : n \in 1..maxK}

\* the template mappings a channel may carry
ChannelBodies(channel, maxT, maxK) ==
    IF channel = Main
    THEN { <<[template |-> BA, checks |-> RawChecks(n, FALSE)]>> : n \in 0..maxK }
    ELSE UNION { { [j \in DOMAIN names |-> [template |-> names[j], checks |-> lists[j]]]
                     : lists \in [DOMAIN names -> CheckLists(maxK)] }
                 : names \in {s \in SeqsBetween(TemplateNames, 1, maxT) : Distinct(s)} }

\* the templates of the channels other than 'main' count against maxTT
Weight(channel, templates) == IF channel = Main THEN 0 ELSE Len(templates)

RECURSIVE HierarchiesOver(_, _, _, _, _)
HierarchiesOver(order, maxT, maxK, budget, tbudget) ==
    IF order = <<>> THEN {<<>>}
    ELSE LET bodies == ChannelBodies(Head(order), maxT, maxK)
         IN UNION { LET rests == HierarchiesOver(Tail(order), maxT, maxK, budget - n, tbudget - t)
                    IN { <<[channel |-> Head(order), templates |-> b]>> \o rest
                           : b \in {x \in bodies : NumChecks(x) = n /\ Weight(Head(order), x) = t},
                             rest \in rests }
                    : n \in 0..budget, t \in 0..tbudget }

ChannelOrders(maxC) ==
    { <<Main>> \o s : s \in {x \in SeqsBetween(ChannelNames \ {Main}, 0, maxC - 1) : Distinct(x)} }

Hierarchies(maxC, maxT, maxK, maxTotal, maxTT) ==
    UNION { HierarchiesOver(order, maxT, maxK, maxTotal, maxTT) : order \in ChannelOrders(maxC) }

----------------------------------------------------------------------------
(* SQLConstructor._prepare_conditions *)

\* str(num) for the positions the bounds allow
Str(num) ==
    CASE num = 1 -> "1" [] num = 2 -> "2" [] num = 3 -> "3" [] num = 4 -> "4"
      [] num = 5 -> "5" [] num = 6 -> "6" [] num = 7 -> "7" [] num = 8 -> "8"
      [] num = 9 -> "9"

\* "{channel}_{template}_{num}".format(...)
ColumnName(channel, template, num) == channel \o template \o <<Str(num)>>

\* first loop: every check is stamped with its column name
StampColumnNames(h) ==
    [i \in DOMAIN h |->
        [channel |-> h[i].channel,
         templates |-> [j \in DOMAIN h[i].templates |->
            [template |-> h[i].templates[j].template,
             checks |-> [k \in DOMAIN h[i].templates[j].checks |->
                [output |-> h[i].templates[j].checks[k].output,
                 column_name |-> ColumnName(h[i].channel, h[i].templates[j].template, k)]]]]]]

TemplateColumns(t) == [k \in DOMAIN t.checks |-> t.checks[k].column_name]

ChannelColumns(c) == Flatten([j \in DOMAIN c.templates |-> TemplateColumns(c.templates[j])])

\* the column names in hierarchy iteration order
HierarchyOrder(h) == Flatten([i \in DOMAIN h |-> ChannelColumns(h[i])])

\* mutant: the checks of 'main' are left out of column_names
ColumnNames_NonBaseline(h) ==
    Range(Flatten([i \in DOMAIN h |-> IF h[i].channel = Main THEN <<>> ELSE ChannelColumns(h[i])]))

\* the set column_names
ColumnNames(h) == Range(HierarchyOrder(h))

ChannelKeys(h) == [i \in DOMAIN h |-> h[i].channel]

TemplateKeys(c) == [j \in DOMAIN c.templates |-> c.templates[j].template]

\* self.conditions[channel]
Channel(h, channel) == h[IndexOf(ChannelKeys(h), channel)]

\* add_checks(channels) applied to the list selected so far
RECURSIVE AddChecks(_, _, _)
AddChecks(h, channels, selected) ==
    IF channels = <<>> THEN selected
    ELSE AddChecks(h, Tail(channels), SelectNew(selected, ChannelColumns(Channel(h, Head(channels)))))

RECURSIVE FindTemplate(_, _)
\* inner search loop: the first template of a channel holding the column
FindTemplate(templates, column_name) ==
    IF templates = <<>> THEN None
    ELSE IF column_name \in Range(TemplateColumns(Head(templates)))
         THEN Head(templates).template
         ELSE FindTemplate(Tail(templates), column_name)

\* the truth value of a channel key: None and the empty string '' are false
Truthy(channel) == channel /= None /\ channel /= <<"">>

RECURSIVE LocateFrom(_, _, _, _)
\* the search loop from the channels h on: a match sets selected_channel and
\* selected_template, and the loop stops only `if selected_channel`
LocateFrom(h, column_name, selected_channel, selected_template) ==
    IF h = <<>>
    THEN [found |-> Truthy(selected_channel), channel |-> selected_channel,
          template |-> selected_template]
    ELSE IF FindTemplate(Head(h).templates, column_name) /= None
         THEN IF Truthy(Head(h).channel)
              THEN [found |-> TRUE, channel |-> Head(h).channel,
                    template |-> FindTemplate(Head(h).templates, column_name)]
              ELSE LocateFrom(Tail(h), column_name, Head(h).channel,
                              FindTemplate(Head(h).templates, column_name))
         ELSE LocateFrom(Tail(h), column_name, selected_channel, selected_template)

\* the search loop and `if not selected_channel`
Locate(h, column_name) == LocateFrom(h, column_name, None, None)

\* mutant: only the templates of the same name match, 'BA' does not
MatchingTemplateColumns_SameNameOnly(h, selected_template) ==
    Flatten([i \in DOMAIN h |->
        IF h[i].channel /= Main
        THEN Flatten([j \in DOMAIN h[i].templates |->
                IF h[i].templates[j].template = selected_template
                THEN TemplateColumns(h[i].templates[j])
                ELSE <<>>])
        ELSE <<>>])

\* the matching templates of the channels other than 'main', in order
MatchingTemplateColumns(h, selected_template) ==
    Flatten([i \in DOMAIN h |->
        IF h[i].channel /= Main
        THEN Flatten([j \in DOMAIN h[i].templates |->
                IF h[i].templates[j].template = selected_template
                   \/ h[i].templates[j].template = BA
                THEN TemplateColumns(h[i].templates[j])
                ELSE <<>>])
        ELSE <<>>])

\* mutant: the check's own channel is skipped when the templates are matched
SelectedChecks_OtherChannels(h, selected_channel, selected_template) ==
    IF selected_channel = Main \/ selected_template = BA
    THEN AddChecks(h, <<Main, selected_channel>>, <<>>)
    ELSE SelectNew(AddChecks(h, <<Main>>, <<>>),
                   Flatten([i \in DOMAIN h |->
                       IF h[i].channel \notin {Main, selected_channel}
                       THEN Flatten([j \in DOMAIN h[i].templates |->
                               IF h[i].templates[j].template \in {selected_template, BA}
                               THEN TemplateColumns(h[i].templates[j])
                               ELSE <<>>])
                       ELSE <<>>]))

\* mutant: add_checks(['main']) is missing from the else branch
SelectedChecks_WithoutBaseline(h, selected_channel, selected_template) ==
    IF selected_channel = Main \/ selected_template = BA
    THEN AddChecks(h, <<Main, selected_channel>>, <<>>)
    ELSE SelectNew(<<>>, MatchingTemplateColumns(h, selected_template))

SelectedChecks(h, selected_channel, selected_template) ==
    IF selected_channel = Main \/ selected_template = BA
    THEN AddChecks(h, <<Main, selected_channel>>, <<>>)
    ELSE SelectNew(AddChecks(h, <<Main>>, <<>>), MatchingTemplateColumns(h, selected_template))

\* mutant: the check's own column is not removed
Base_KeepsOwnColumn(h, column_name, selected_channel, selected_template) ==
    SelectedChecks(h, selected_channel, selected_template)

Base(h, column_name, selected_channel, selected_template) ==
    LET selected_checks_list == SelectedChecks(h, selected_channel, selected_template)
    IN IF column_name \in Range(selected_checks_list)
       THEN RemoveFirst(selected_checks_list, column_name)
       ELSE selected_checks_list

Bucket(t) ==
    [template |-> t.template,
     no_output |-> SelectSeq(t.checks, LAMBDA c : ~c.output),
     output |-> SelectSeq(t.checks, LAMBDA c : c.output)]

BucketColumns(t) ==
    [template |-> t.template,
     no_output |-> [k \in DOMAIN Bucket(t).no_output |-> Bucket(t).no_output[k].column_name],
     output |-> [k \in DOMAIN Bucket(t).output |-> Bucket(t).output[k].column_name]]

NotBA(b) == b.template /= BA

\* templates of the selected channel before the selected template, 'BA' left out
PriorTemplates(h, selected_channel, selected_template) ==
    LET c == Channel(h, selected_channel)
        at == IndexOf(TemplateKeys(c), selected_template)
    IN SelectSeq([j \in 1..(at - 1) |-> BucketColumns(c.templates[j])], NotBA)

\* templates of the selected channel after the selected template, 'BA' left out
PostTemplates(h, selected_channel, selected_template) ==
    LET c == Channel(h, selected_channel)
        at == IndexOf(TemplateKeys(c), selected_template)
    IN SelectSeq([j \in 1..(Len(c.templates) - at) |-> BucketColumns(c.templates[at + j])], NotBA)

CheckNotFound == [found |-> FALSE, base |-> <<>>, prior_templates |-> <<>>, post_templates |-> <<>>]

\* result[column_name]
Entry(h, column_name) ==
    LET at == Locate(h, column_name)
    IN IF ~at.found THEN CheckNotFound
       ELSE [found |-> TRUE,
             base |-> Base(h, column_name, at.channel, at.template),
             prior_templates |-> PriorTemplates(h, at.channel, at.template),
             post_templates |-> PostTemplates(h, at.channel, at.template)]

\* the orders in which `for column_name in column_names` may visit the set
IterationOrders(column_names) == Permutations_(column_names)

\* the dict result, as its items in insertion order
Resolve(h, order) == [n \in DOMAIN order |-> [key |-> order[n], value |-> Entry(h, order[n])]]

----------------------------------------------------------------------------
(* The dict _conditions_column_mappings *)

Keys(m) == [n \in DOMAIN m |-> m[n].key]

Get(m, key) == m[IndexOf(Keys(m), key)].value

----------------------------------------------------------------------------
(* SQLConstructor._parse_unique_identifiers.  An identifier is the list of *)
(* its comma-separated parts, each part an alias and a column.             *)

UniqueIdentifiers == << <<[alias |-> "a", column |-> "column1"]>> >>

\* ', '.join(part.split('.')[1] for part in parts), kept as the list of columns
WithoutAliases(identifier) == [n \in DOMAIN identifier |-> identifier[n].column]

ParseUniqueIdentifiers(identifiers) ==
    [without_aliases |-> UNION {{part.column : part \in Range(identifier)}
                                   : identifier \in Range(identifiers)},
     with_aliases |-> UNION {Range(identifier) : identifier \in Range(identifiers)},
     original_without_aliases |-> {WithoutAliases(identifier)
                                   : identifier \in Range(identifiers)}]

\* _generate_table_name: a fresh name per call, here the name tagged with the
\* key it was drawn for
GenerateTableName(key) == <<"user_work">> \o key

Eligibility == <<"eligibility">>

\* _generate_backend_table_details: a name for 'eligibility' and for every
\* grain parsed so far
GenerateBackendTableDetails(parsed) ==
    [key \in {Eligibility} \cup parsed.original_without_aliases |-> GenerateTableName(key)]

\* dict.get(key)
BackendGet(backend, key) == IF key \in DOMAIN backend THEN backend[key] ELSE None

\* generate_unique_identifier_details_sql: the table each grain's detail query
\* creates, and the table it selects from
GenerateUniqueIdentifierDetailsSql(backend, parsed) ==
    [identifier \in parsed.original_without_aliases |->
        [table_name |-> BackendGet(backend, identifier),
         from |-> BackendGet(backend, Eligibility)]]

----------------------------------------------------------------------------
(* WaterfallSQLConstructor: the generated aggregates.  A CASE WHEN         *)
(* condition is the list of its AND-ed conjuncts; a conjunct is a          *)
(* parenthesised OR of "max_<col> = <val>" over its columns (one column    *)
(* for a plain comparison).                                                *)

Equals(col, val) == [cols |-> <<col>>, val |-> val]

BucketChecks(template_checks) == template_checks.no_output \o template_checks.output

\* one "(max_a = 0 OR max_b = 0)" per prior template that has checks
TemplateConditions(templates) ==
    LET all == [n \in DOMAIN templates |-> [cols |-> BucketChecks(templates[n]), val |-> 0]]
    IN SelectSeq(all, LAMBDA c : c.cols /= <<>>)

\* mutant: the conditions on the base checks are missing
IncrementalDropsCases_WithoutBase(mappings) ==
    [n \in DOMAIN mappings |->
        [check |-> mappings[n].key,
         conditions |->
            <<Equals(mappings[n].key, 0)>>
            \o TemplateConditions(mappings[n].value.prior_templates)]]

\* generate_incremental_drops_sql: the case statements of one grain query
IncrementalDropsCases(mappings) ==
    [n \in DOMAIN mappings |->
        [check |-> mappings[n].key,
         conditions |->
            <<Equals(mappings[n].key, 0)>>
            \o [b \in DOMAIN mappings[n].value.base |-> Equals(mappings[n].value.base[b], 1)]
            \o TemplateConditions(mappings[n].value.prior_templates)]]

GenerateIncrementalDropsSql(mappings, parsed) ==
    [identifier \in parsed.original_without_aliases |-> IncrementalDropsCases(mappings)]

\* an exception on its way to the caller, with the number of queries issued so far
Raise(error, log) == [error |-> error, queries |-> Len(log)]

\* an entry "Check not found" is a string: subscripting it with 'base' or
\* 'prior_templates' raises TypeError
HasNotFound(mappings) == \E n \in DOMAIN mappings : ~mappings[n].value.found

\* mutant: the unique-drop query counts the rows that pass the check
UniqueDropsCases_Passing(mappings) ==
    [n \in DOMAIN mappings |->
        [check |-> mappings[n].key, conditions |-> <<Equals(mappings[n].key, 1)>>]]

\* generate_unique_drops_sql: "max_<check> = 0" for every key of the map
UniqueDropsCases(mappings) ==
    [n \in DOMAIN mappings |->
        [check |-> mappings[n].key, conditions |-> <<Equals(mappings[n].key, 0)>>]]

GenerateUniqueDropsSql(mappings, parsed) ==
    [identifier \in parsed.original_without_aliases |-> UniqueDropsCases(mappings)]

\* mutant: one OR over the checks of all post templates together
RegainCases_PostTogether(mappings) ==
    [n \in DOMAIN mappings |->
        [check |-> mappings[n].key,
         conditions |->
            <<Equals(mappings[n].key, 0)>>
            \o [b \in DOMAIN mappings[n].value.base |-> Equals(mappings[n].value.base[b], 1)]
            \o TemplateConditions(mappings[n].value.prior_templates)
            \o (LET post == Flatten([t \in DOMAIN mappings[n].value.post_templates |->
                                        BucketChecks(mappings[n].value.post_templates[t])])
                IN IF post = <<>> THEN <<>> ELSE <<[cols |-> post, val |-> 0]>>)]]

\* generate_regain_sql: the incremental-drop conjuncts, then one OR per post
\* template that has checks
RegainCases(mappings) ==
    [n \in DOMAIN mappings |->
        [check |-> mappings[n].key,
         conditions |->
            <<Equals(mappings[n].key, 0)>>
            \o [b \in DOMAIN mappings[n].value.base |-> Equals(mappings[n].value.base[b], 1)]
            \o TemplateConditions(mappings[n].value.prior_templates)
            \o TemplateConditions(mappings[n].value.post_templates)]]

GenerateRegainSql(mappings, parsed) ==
    [identifier \in parsed.original_without_aliases |-> RegainCases(mappings)]

\* the columns of all prior templates, in one OR
PriorFailedChecks(related_checks) ==
    Flatten([n \in DOMAIN related_checks.prior_templates |->
                BucketChecks(related_checks.prior_templates[n])])

\* generate_remaining_sql: passing = previous_checks + [check], then the outer SELECT
RemainingCases(mappings) ==
    [n \in DOMAIN mappings |->
        [check |-> mappings[n].key,
         passing |-> [i \in 1..n |-> mappings[i].key],
         prior_failed |-> PriorFailedChecks(mappings[n].value)]]

GenerateRemainingSql(mappings, parsed) ==
    [identifier \in parsed.original_without_aliases |->
        [select |-> Keys(mappings), cases |-> RemainingCases(mappings)]]

----------------------------------------------------------------------------
(* The database: one detail table per grain, one row per grain value with  *)
(* max_<col> in {0, 1} for every check column.                             *)

MaxRows == 2

Rows(column_names) == [column_names -> {0, 1}]

Populations(column_names) == SeqsBetween(Rows(column_names), 1, MaxRows)

\* the CASE WHEN condition, on one row
Holds(row, conds) ==
    \A n \in DOMAIN conds : \E i \in DOMAIN conds[n].cols : row[conds[n].cols[i]] = conds[n].val

\* SUM(CASE WHEN ... THEN 1 ELSE 0 END) over the rows of the table
SumCase(rows, conds) == Cardinality({r \in DOMAIN rows : Holds(rows[r], conds)})

\* to_pandas(query): one aggregate per case statement, keyed by its alias
ToPandas(rows, cases) ==
    [check \in {cases[n].check : n \in DOMAIN cases} |->
        SumCase(rows, cases[CHOOSE n \in DOMAIN cases : cases[n].check = check].conditions)]

\* to_pandas of the remaining query: total_rows - SUM(CASE WHEN <passing>
\* AND (<prior failed>) ...) per check, the outer SELECT keeping the checks
RemainingToPandas(rows, sql) ==
    [check \in Range(sql.select) |->
        LET case == sql.cases[CHOOSE n \in DOMAIN sql.cases : sql.cases[n].check = check]
            passing == [i \in DOMAIN case.passing |-> Equals(case.passing[i], 1)]
            prior_failed == IF case.prior_failed = <<>> THEN <<>>
                            ELSE <<[cols |-> case.prior_failed, val |-> 0]>>
        IN Len(rows) - SumCase(rows, passing \o prior_failed)]

----------------------------------------------------------------------------
(* EligibleMeta.validate_tables.  A table declaration is the dict with the *)
(* lists 'tables' and 'work_tables'; of an entry the model keeps its       *)
(* join_type and whether it carries all the required keys.                 *)

MaxTables == 2
MaxWorkTables == 1

TableEntries == [join_type : {"FROM", "JOIN"}, complete : BOOLEAN]

TableDeclarations ==
    [tables : SeqsBetween(TableEntries, 0, MaxTables),
     work_tables : SeqsBetween(TableEntries, 0, MaxWorkTables)]

\* the declaration of the sample run: one FROM table and one joined table
SampleTables ==
    [tables |-> <<[join_type |-> "FROM", complete |-> TRUE],
                  [join_type |-> "JOIN", complete |-> TRUE]>>,
     work_tables |-> <<>>]

\* from_count: the first entry of 'tables' if it is a FROM, and every FROM of
\* 'work_tables'
FromCount(declaration) ==
    Cardinality({i \in DOMAIN declaration.tables :
                    i = 1 /\ declaration.tables[i].join_type = "FROM"})
    + Cardinality({i \in DOMAIN declaration.work_tables :
                      declaration.work_tables[i].join_type = "FROM"})

\* validate_tables: an entry without its required keys raises inside the loop,
\* a from_count other than 1 raises after it; otherwise the call returns
ValidateTables(declaration) ==
    IF \E entry \in Range(declaration.tables) \cup Range(declaration.work_tables) :
          ~entry.complete
    THEN [error |-> "ValueError"]
    ELSE IF FromCount(declaration) /= 1
         THEN [error |-> "ValueError"]
         ELSE None

----------------------------------------------------------------------------
(* EligibleMeta.validate_conditions, on hierarchies of any shape: 'main'   *)
(* may be missing or carry any templates, any check may be an output       *)
(* check.                                                                  *)

RawMaxTemplates == 2
RawMaxChecks == 2
RawMainChecks == 1

\* the lists of checks with any output flags
RawCheckLists(maxK) ==
    {[k \in DOMAIN outputs |-> [output |-> outputs[k], column_name |-> None]]
        : outputs \in SeqsBetween(BOOLEAN, 0, maxK)}

\* the template mappings of a channel, the keys of a dict being distinct
RawBodies(maxT, maxK) ==
    UNION { { [j \in DOMAIN names |-> [template |-> names[j], checks |-> lists[j]]]
                : lists \in [DOMAIN names -> RawCheckLists(maxK)] }
            : names \in {s \in SeqsBetween(TemplateNames, 1, maxT) : Distinct(s)} }

PromoA == <<"promoA">>

\* 'main' alone, 'promoA' alone, and the two in either order
RawHierarchies(mainT, mainK, otherT, otherK) ==
    LET mains == {[channel |-> Main, templates |-> b] : b \in RawBodies(mainT, mainK)}
        others == {[channel |-> PromoA, templates |-> b] : b \in RawBodies(otherT, otherK)}
    IN {<<m>> : m \in mains} \cup {<<o>> : o \in others}
       \cup {<<m, o>> : m \in mains, o \in others}
       \cup {<<o, m>> : m \in mains, o \in others}

\* the checks of 'main': list(subdict.keys()) != ['BA'], then output is True
ValidateMain(templates) ==
    IF [j \in DOMAIN templates |-> templates[j].template] /= <<BA>>
    THEN [error |-> "ValueError"]
    ELSE IF \E check \in Range(templates[1].checks) : check.output
         THEN [error |-> "ValueError"]
         ELSE None

OutputTrueCount(checks) == Cardinality({k \in DOMAIN checks : checks[k].output})

\* output_true_count after the items of a template: it is set to 0 once per
\* channel and grows over all the templates of the channel
CountAfter(output_true_count, checks) == output_true_count + OutputTrueCount(checks)

RECURSIVE ValidateTemplates(_, _)
\* the loop over the templates of a channel other than 'main'
ValidateTemplates(templates, output_true_count) ==
    IF templates = <<>> THEN None
    ELSE LET checks == Head(templates).checks
             count == CountAfter(output_true_count, checks)
         IN IF Head(templates).template /= BA /\ count > 1
            THEN [error |-> "ValueError"]
            ELSE IF Head(templates).template /= BA /\ count = 1 /\ checks = <<>>
                 THEN [error |-> "IndexError"]
                 ELSE IF Head(templates).template /= BA /\ count = 1
                         /\ ~checks[Len(checks)].output
                      THEN [error |-> "ValueError"]
                      ELSE ValidateTemplates(Tail(templates), count)

RECURSIVE ValidateChannels(_)
\* the loop over conditions.items()
ValidateChannels(h) ==
    IF h = <<>> THEN None
    ELSE LET result == IF Head(h).channel = Main
                       THEN ValidateMain(Head(h).templates)
                       ELSE ValidateTemplates(Head(h).templates, 0)
         IN IF result /= None THEN result ELSE ValidateChannels(Tail(h))

\* validate_conditions
ValidateConditions(h) ==
    IF \A i \in DOMAIN h : h[i].channel /= Main
    THEN [error |-> "ValueError"]
    ELSE ValidateChannels(h)

----------------------------------------------------------------------------
(* The state machine *)

InitWith(hierarchies, declarations) ==
    /\ tables \in declarations
    /\ verdict = None
    /\ runs = 1
    /\ tracked_tables = <<>>
    /\ cleanups = <<>>
    /\ hooks = 0
    /\ context = FALSE
    /\ handler = "live"
    /\ backend_tables = GenerateBackendTableDetails(ParseUniqueIdentifiers(UniqueIdentifiers))
    /\ conditions \in hierarchies
    /\ conditions_column_mappings = <<>>
    /\ unique_identifiers = UniqueIdentifiers
    /\ parsed_unique_identifiers = ParseUniqueIdentifiers(UniqueIdentifiers)
    /\ eligibility_sql = None
    /\ waterfall_constructor = None
    /\ eligible_constructor = None
    /\ first_run = None
    /\ remaining_sql = None
    /\ incremental_drops_sql = None
    /\ unique_drops_sql = None
    /\ regain_sql = None
    /\ detail_tables = None
    /\ query_results = <<>>
    /\ compiled_dataframes = <<>>
    /\ starting_population = None
    /\ report = None
    /\ raised = None
    /\ issued = <<>>
    /\ pc = "init"

InitOver(hierarchies) == InitWith(hierarchies, {SampleTables})

Init == InitOver(Hierarchies(MaxChannels, MaxTemplates, MaxChecks, MaxTotalChecks, MaxTotalTemplates))

\* 'main' is a key of the hierarchy
HasMain(h) == \E i \in DOMAIN h : h[i].channel = Main

\* conditions.setter on a hierarchy without 'main' that has checks: the names
\* are stamped, then add_checks(['main', ...]) raises KeyError for the first
\* column name
SetConditionsWithoutMain ==
    /\ pc = "init"
    /\ ~HasMain(conditions)
    /\ ColumnNames(StampColumnNames(conditions)) /= {}
    /\ conditions' = StampColumnNames(conditions)
    /\ raised' = Raise("KeyError", issued)
    /\ pc' = "raised"
    /\ UNCHANGED <<conditions_column_mappings, parsed_unique_identifiers, remaining_sql,
                   incremental_drops_sql, unique_drops_sql, regain_sql, detail_tables,
                   query_results, compiled_dataframes, starting_population, report,
                   issued, constructor_vars, extra_vars>>

\* conditions.setter: self._conditions = value; self._prepare_conditions()
SetConditions ==
    /\ pc = "init"
    /\ HasMain(conditions) \/ ColumnNames(StampColumnNames(conditions)) = {}
    /\ conditions' = StampColumnNames(conditions)
    /\ \E order \in IterationOrders(ColumnNames(conditions')) :
          conditions_column_mappings' = Resolve(conditions', order)
    /\ pc' = "prepared"
    /\ UNCHANGED <<parsed_unique_identifiers, remaining_sql, incremental_drops_sql,
                   unique_drops_sql, regain_sql, detail_tables, query_results, report_vars, issued, constructor_vars>>
    /\ UNCHANGED extra_vars

\* WaterfallSQLConstructor.generate_remaining_sql
GenerateRemaining ==
    /\ pc = "prepared"
    /\ IF HasNotFound(conditions_column_mappings)
       THEN /\ raised' = Raise("TypeError", issued)
            /\ pc' = "raised"
            /\ UNCHANGED <<remaining_sql, issued>>
       ELSE /\ remaining_sql' = GenerateRemainingSql(conditions_column_mappings, parsed_unique_identifiers)
            /\ pc' = "remaining"
            /\ UNCHANGED <<raised, issued>>
    /\ UNCHANGED <<conditions, conditions_column_mappings, parsed_unique_identifiers,
                   incremental_drops_sql, unique_drops_sql, regain_sql, detail_tables,
                   query_results, compiled_dataframes,
                   starting_population, report, constructor_vars>>
    /\ UNCHANGED extra_vars

Next == SetConditions \/ GenerateRemaining

Spec == Init /\ [][Next]_vars

----------------------------------------------------------------------------
(* The pipeline with a database connection *)

ExecMaxChannels == 2
ExecMaxTemplates == 2
ExecMaxChecks == 2
ExecMaxTotalChecks == 3

InitExec == InitOver(Hierarchies(ExecMaxChannels, ExecMaxTemplates, ExecMaxChecks,
                                 ExecMaxTotalChecks, ExecMaxTemplates))

----------------------------------------------------------------------------
(* Small hierarchies, for the specifications about the order of operations *)

SmallMaxTemplates == 1
SmallMaxChecks == 1

SmallHierarchies ==
    Hierarchies(ExecMaxChannels, SmallMaxTemplates, SmallMaxChecks,
                SmallMaxChecks, SmallMaxTemplates)

InitSmall == InitOver(SmallHierarchies)

\* mutant: the regain queries run before the incremental-drop queries
Stages_RegainBeforeIncremental ==
    <<"tables", "unique_drops", "regain", "increm_drops", "step2_done",
      "step3_done", "step4_done">>

\* the stages of generate_waterfall in the order of its calls: step 1, the
\* four calculations of step 2, step 3, step 4; pc names the last stage done
Stages == <<"tables", "unique_drops", "increm_drops", "regain", "step2_done",
            "step3_done", "step4_done">>

\* where the caller stands when a stage starts
Previous(stage) ==
    IF IndexOf(Stages, stage) = 1 THEN "prepared" ELSE Stages[IndexOf(Stages, stage) - 1]

RECURSIVE IssueAll(_, _, _)
\* the loop over queries.items(): one query per identifier goes to the executor
IssueAll(log, identifiers, stage) ==
    IF identifiers = {} THEN log
    ELSE LET identifier == CHOOSE i \in identifiers : TRUE
         IN IssueAll(Append(log, [stage |-> stage, identifier |-> identifier]),
                     identifiers \ {identifier}, stage)

\* Waterfall._step1_create_base_tables: the executor materialises the detail tables
CreateBaseTables ==
    /\ pc = Previous("tables")
    /\ detail_tables' \in [parsed_unique_identifiers.original_without_aliases ->
                              Populations(ColumnNames(conditions))]
    /\ pc' = "tables"
    /\ UNCHANGED <<conditions, conditions_column_mappings, parsed_unique_identifiers,
                   remaining_sql, incremental_drops_sql, unique_drops_sql, regain_sql,
                   query_results, report_vars, constructor_vars>>
    /\ issued' = IssueAll(issued, parsed_unique_identifiers.original_without_aliases, "tables")
    /\ UNCHANGED extra_vars

\* Waterfall._save_results
SaveResults(results, identifier, data) ==
    IF identifier \in DOMAIN results
    THEN [results EXCEPT ![identifier] = Append(@, data)]
    ELSE [i \in DOMAIN results \cup {identifier} |->
            IF i = identifier THEN <<data>> ELSE results[i]]

RECURSIVE SaveAll(_, _, _, _)
\* the loop over queries.items()
SaveAll(results, identifiers, name, dfs) ==
    IF identifiers = {} THEN results
    ELSE LET identifier == CHOOSE i \in identifiers : TRUE
         IN SaveAll(SaveResults(results, identifier, [Index |-> name, data |-> dfs[identifier]]),
                    identifiers \ {identifier}, name, dfs)

\* Waterfall._calculate_unique_drops
CalculateUniqueDrops ==
    /\ pc = Previous("unique_drops")
    /\ unique_drops_sql' =
          GenerateUniqueDropsSql(conditions_column_mappings, parsed_unique_identifiers)
    /\ query_results' =
          SaveAll(query_results, DOMAIN unique_drops_sql', "unique_drops",
                  [identifier \in DOMAIN unique_drops_sql' |->
                      ToPandas(detail_tables[identifier], unique_drops_sql'[identifier])])
    /\ pc' = "unique_drops"
    /\ UNCHANGED <<conditions, conditions_column_mappings, parsed_unique_identifiers,
                   remaining_sql, incremental_drops_sql, regain_sql, detail_tables, report_vars, constructor_vars>>
    /\ issued' = IssueAll(issued, DOMAIN unique_drops_sql', "unique_drops")
    /\ UNCHANGED extra_vars

\* Waterfall._calculate_incremental_drops
CalculateIncrementalDrops ==
    /\ pc = Previous("increm_drops")
    /\ IF HasNotFound(conditions_column_mappings)
       THEN /\ raised' = Raise("TypeError", issued)
            /\ pc' = "raised"
            /\ UNCHANGED <<incremental_drops_sql, query_results, issued>>
       ELSE /\ incremental_drops_sql' =
                  GenerateIncrementalDropsSql(conditions_column_mappings, parsed_unique_identifiers)
            /\ query_results' =
                  SaveAll(query_results, DOMAIN incremental_drops_sql', "increm_drops",
                          [identifier \in DOMAIN incremental_drops_sql' |->
                              ToPandas(detail_tables[identifier], incremental_drops_sql'[identifier])])
            /\ pc' = "increm_drops"
            /\ issued' = IssueAll(issued, DOMAIN incremental_drops_sql', "increm_drops")
            /\ UNCHANGED raised
    /\ UNCHANGED <<conditions, conditions_column_mappings, parsed_unique_identifiers,
                   remaining_sql, unique_drops_sql, regain_sql, detail_tables, compiled_dataframes,
                   starting_population, report, constructor_vars>>
    /\ UNCHANGED extra_vars

\* Waterfall._calculate_regain
CalculateRegain ==
    /\ pc = Previous("regain")
    /\ IF HasNotFound(conditions_column_mappings)
       THEN /\ raised' = Raise("TypeError", issued)
            /\ pc' = "raised"
            /\ UNCHANGED <<regain_sql, query_results, issued>>
       ELSE /\ regain_sql' = GenerateRegainSql(conditions_column_mappings, parsed_unique_identifiers)
            /\ query_results' =
                  SaveAll(query_results, DOMAIN regain_sql', "regain",
                          [identifier \in DOMAIN regain_sql' |->
                              ToPandas(detail_tables[identifier], regain_sql'[identifier])])
            /\ pc' = "regain"
            /\ issued' = IssueAll(issued, DOMAIN regain_sql', "regain")
            /\ UNCHANGED raised
    /\ UNCHANGED <<conditions, conditions_column_mappings, parsed_unique_identifiers,
                   remaining_sql, incremental_drops_sql, unique_drops_sql, detail_tables, compiled_dataframes,
                   starting_population, report, constructor_vars>>
    /\ UNCHANGED extra_vars

\* Waterfall._calculate_remaining
CalculateRemaining ==
    /\ pc = Previous("step2_done")
    /\ IF HasNotFound(conditions_column_mappings)
       THEN /\ raised' = Raise("TypeError", issued)
            /\ pc' = "raised"
            /\ UNCHANGED <<remaining_sql, query_results, issued>>
       ELSE /\ remaining_sql' =
                  GenerateRemainingSql(conditions_column_mappings, parsed_unique_identifiers)
            /\ query_results' =
                  SaveAll(query_results, DOMAIN remaining_sql', "remaining",
                          [identifier \in DOMAIN remaining_sql' |->
                              RemainingToPandas(detail_tables[identifier], remaining_sql'[identifier])])
            /\ pc' = "step2_done"
            /\ issued' = IssueAll(issued, DOMAIN remaining_sql', "remaining")
            /\ UNCHANGED raised
    /\ UNCHANGED <<conditions, conditions_column_mappings, parsed_unique_identifiers,
                   incremental_drops_sql, unique_drops_sql, regain_sql, detail_tables, compiled_dataframes,
                   starting_population, report, constructor_vars>>
    /\ UNCHANGED extra_vars

\* Waterfall._step2_analyze_eligibility, after the base tables of step 1
NextExec ==
    \/ SetConditions
    \/ CreateBaseTables
    \/ CalculateUniqueDrops
    \/ CalculateIncrementalDrops
    \/ CalculateRegain
    \/ CalculateRemaining

SpecExec == InitExec /\ [][NextExec]_vars

----------------------------------------------------------------------------
(* Waterfall.generate_waterfall: steps 1 and 2 as above, then the          *)
(* dataframes of step 3 and the report of step 4.                          *)

\* the frame saved under a family's label in _query_results[identifier]
Frame(results, identifier, name) ==
    LET dfs == results[identifier]
    IN dfs[CHOOSE n \in DOMAIN dfs : dfs[n].Index = name].data

\* df.loc[0, increm_drop] + df.loc[0, remaining]: the row of the first check
StartingPopulation(results, mappings, identifier) ==
    Frame(results, identifier, "increm_drops")[Keys(mappings)[1]]
    + Frame(results, identifier, "remaining")[Keys(mappings)[1]]

\* df[[unique_drop, increm_drop, cumul_drop, regain, remaining]], one row per check
CompiledDataframe(results, mappings, identifier) ==
    [check \in Range(Keys(mappings)) |->
        [unique_drops |-> Frame(results, identifier, "unique_drops")[check],
         increm_drops |-> Frame(results, identifier, "increm_drops")[check],
         cumul_drops |-> StartingPopulation(results, mappings, identifier)
                            - Frame(results, identifier, "remaining")[check],
         regain |-> Frame(results, identifier, "regain")[check],
         remaining |-> Frame(results, identifier, "remaining")[check]]]

\* Waterfall._step3_create_dataframes; _starting_population keeps the value of
\* the identifier the loop visits last, and a frame without rows has no row 0
CreateDataframes ==
    /\ pc = Previous("step3_done")
    /\ IF conditions_column_mappings = <<>>
       THEN /\ raised' = Raise("KeyError", issued)
            /\ pc' = "raised"
            /\ UNCHANGED <<compiled_dataframes, starting_population>>
       ELSE /\ compiled_dataframes' =
                  [identifier \in DOMAIN query_results |->
                      CompiledDataframe(query_results, conditions_column_mappings, identifier)]
            /\ \E last \in DOMAIN query_results :
                  starting_population' =
                      StartingPopulation(query_results, conditions_column_mappings, last)
            /\ pc' = "step3_done"
            /\ UNCHANGED raised
    /\ UNCHANGED <<conditions, conditions_column_mappings, parsed_unique_identifiers,
                   remaining_sql, incremental_drops_sql, unique_drops_sql, regain_sql,
                   detail_tables, query_results, report, issued, constructor_vars>>
    /\ UNCHANGED extra_vars

\* _step4_create_excel: the sheet of the conditions and the result frames, saved
CreateExcel ==
    /\ pc = Previous("step4_done")
    /\ report' = [conditions |-> HierarchyOrder(conditions), results |-> query_results]
    /\ pc' = "step4_done"
    /\ UNCHANGED <<conditions, conditions_column_mappings, parsed_unique_identifiers,
                   remaining_sql, incremental_drops_sql, unique_drops_sql, regain_sql,
                   detail_tables, query_results, compiled_dataframes, starting_population,
                   raised, issued, constructor_vars>>
    /\ UNCHANGED extra_vars

NextWaterfall ==
    \/ SetConditions
    \/ CreateBaseTables
    \/ CalculateUniqueDrops
    \/ CalculateIncrementalDrops
    \/ CalculateRegain
    \/ CalculateRemaining
    \/ CreateDataframes
    \/ CreateExcel

SpecWaterfall == InitSmall /\ [][NextWaterfall]_vars

MaxRuns == 2

\* generate_waterfall called again on the same Waterfall object: _query_results,
\* _compiled_dataframes and _starting_population are set in __init__ only
RunAgain ==
    /\ pc = "step4_done"
    /\ runs < MaxRuns
    /\ runs' = runs + 1
    /\ pc' = "prepared"
    /\ UNCHANGED <<conditions, conditions_column_mappings, parsed_unique_identifiers,
                   remaining_sql, incremental_drops_sql, unique_drops_sql, regain_sql,
                   detail_tables, query_results, report_vars, issued, constructor_vars,
                   tables, verdict, backend_tables, handler_vars>>

NextRepeat == NextWaterfall \/ RunAgain

SpecRepeat == InitSmall /\ [][NextRepeat]_vars

\* the stages that hand queries to the executor
QueryStages == <<"tables", "unique_drops", "increm_drops", "regain", "step2_done">>

\* the query family of a stage
Family(stage) == IF stage = "step2_done" THEN "remaining" ELSE stage

\* mutant: the exception is caught and the pipeline goes on with the stage done
AfterRaise_Swallowed(stage) == stage

\* where the caller stands after an exception of a stage: nothing in
\* generate_waterfall, the steps or call_logger's wrapper catches it
AfterRaise(stage) == "raised"

\* execute_query or to_pandas raises on a query of a stage
ExecutorRaises ==
    /\ \E n \in DOMAIN QueryStages :
          /\ pc = Previous(QueryStages[n])
          /\ \E identifier \in parsed_unique_identifiers.original_without_aliases :
                issued' = Append(issued, [stage |-> Family(QueryStages[n]),
                                         identifier |-> identifier])
          /\ raised' = Raise("ExecutionError", issued')
          /\ pc' = AfterRaise(QueryStages[n])
    /\ UNCHANGED <<conditions, conditions_column_mappings, parsed_unique_identifiers,
                   remaining_sql, incremental_drops_sql, unique_drops_sql, regain_sql,
                   detail_tables, query_results, compiled_dataframes, starting_population,
                   report, constructor_vars>>
    /\ UNCHANGED extra_vars

NextFaulty ==
    \/ SetConditions
    \/ CreateBaseTables
    \/ CalculateUniqueDrops
    \/ CalculateIncrementalDrops
    \/ CalculateRegain
    \/ CalculateRemaining
    \/ CreateDataframes
    \/ CreateExcel
    \/ ExecutorRaises

SpecFaulty == InitSmall /\ [][NextFaulty]_vars

----------------------------------------------------------------------------
(* Two runs of the compiler over the same hierarchy.                       *)

\* generate_eligible_sql: the identifiers joined from the set 'with_aliases',
\* then one CASE column per check in hierarchy order
GenerateEligibleSql(h, parsed, with_aliases) ==
    [identifiers |-> with_aliases, select |-> HierarchyOrder(h)]

\* the four generators of SQLConstructor.waterfall and generate_eligible_sql
CompileQueries ==
    /\ pc = "prepared"
    /\ IF HasNotFound(conditions_column_mappings)
       THEN /\ raised' = Raise("TypeError", issued)
            /\ pc' = "raised"
            /\ UNCHANGED <<unique_drops_sql, incremental_drops_sql, regain_sql,
                           remaining_sql, eligibility_sql>>
       ELSE /\ unique_drops_sql' =
                  GenerateUniqueDropsSql(conditions_column_mappings, parsed_unique_identifiers)
            /\ incremental_drops_sql' =
                  GenerateIncrementalDropsSql(conditions_column_mappings, parsed_unique_identifiers)
            /\ regain_sql' =
                  GenerateRegainSql(conditions_column_mappings, parsed_unique_identifiers)
            /\ remaining_sql' =
                  GenerateRemainingSql(conditions_column_mappings, parsed_unique_identifiers)
            /\ \E with_aliases \in IterationOrders(parsed_unique_identifiers.with_aliases) :
                  eligibility_sql' =
                      GenerateEligibleSql(conditions, parsed_unique_identifiers, with_aliases)
            /\ pc' = "compiled"
            /\ UNCHANGED raised
    /\ UNCHANGED <<conditions, conditions_column_mappings, parsed_unique_identifiers,
                   detail_tables, query_results, compiled_dataframes, starting_population,
                   report, issued, unique_identifiers, waterfall_constructor,
                   eligible_constructor, first_run>>
    /\ UNCHANGED extra_vars

\* what a run of the compiler puts out
Output ==
    [mappings |-> conditions_column_mappings,
     unique_drops |-> unique_drops_sql,
     incremental_drops |-> incremental_drops_sql,
     regain |-> regain_sql,
     remaining |-> remaining_sql,
     eligibility |-> eligibility_sql]

\* a second run: SQLConstructor(conditions, tables, unique_identifiers, ...) anew,
\* over the hierarchy of the first run
Restart ==
    /\ pc = "compiled"
    /\ first_run = None
    /\ first_run' = Output
    /\ conditions_column_mappings' = <<>>
    /\ unique_drops_sql' = None
    /\ incremental_drops_sql' = None
    /\ regain_sql' = None
    /\ remaining_sql' = None
    /\ eligibility_sql' = None
    /\ pc' = "init"
    /\ UNCHANGED <<conditions, parsed_unique_identifiers, detail_tables, query_results,
                   report_vars, issued, unique_identifiers, waterfall_constructor,
                   eligible_constructor>>
    /\ UNCHANGED extra_vars

NextTwice == SetConditions \/ CompileQueries \/ Restart

SpecTwice == InitExec /\ [][NextTwice]_vars

----------------------------------------------------------------------------
(* Assigning the unique identifiers of a constructed SQLConstructor.       *)

\* the aliases of the tables handed to the constructor
TableAliases == {"a", "b"}

MaxIdentifiers == 1
MaxParts == 2

\* the parts "<alias>.<column>" an identifier can be written with
Parts == [alias : {"a", "b", "c"}, column : {"id1", "id2"}]

\* the lists of identifier specs a caller can hand over
IdentifierSpecs == SeqsBetween(SeqsBetween(Parts, 1, MaxParts), 1, MaxIdentifiers)

\* ConstructSQLMeta.validate_unique_identifiers: an alias outside the table
\* aliases, or a column met under a second alias, raises ValueError
ValidateUniqueIdentifiers(value, table_aliases) ==
    LET parts == UNION {Range(identifier) : identifier \in Range(value)}
    IN IF \E part \in parts : part.alias \notin table_aliases
       THEN [error |-> "ValueError"]
       ELSE IF \E p, q \in parts : p.column = q.column /\ p.alias /= q.alias
            THEN [error |-> "ValueError"]
            ELSE None

\* ConstructSQLMeta.__setattr__ is the attribute hook of the class object:
\* it runs when '_unique_identifiers' is set on the class, not on an instance
MetaSetattr(target, name) == target = "class" /\ name = "_unique_identifiers"

\* the constructor has run; pc names the last operation on the object
Constructed == pc \in {"prepared", "waterfall", "eligible"}

\* SQLConstructor.unique_identifiers = value: the setter assigns
\* self._unique_identifiers on the instance and parses
AssignUniqueIdentifiers ==
    /\ Constructed
    /\ \E value \in IdentifierSpecs :
          IF /\ MetaSetattr("instance", "_unique_identifiers")
             /\ ValidateUniqueIdentifiers(value, TableAliases) /= None
          THEN /\ raised' = Raise(ValidateUniqueIdentifiers(value, TableAliases).error, issued)
               /\ pc' = "raised"
               /\ UNCHANGED <<unique_identifiers, parsed_unique_identifiers>>
          ELSE /\ unique_identifiers' = value
               /\ parsed_unique_identifiers' = ParseUniqueIdentifiers(value)
               /\ UNCHANGED <<raised, pc>>
    /\ UNCHANGED <<conditions, conditions_column_mappings, remaining_sql,
                   incremental_drops_sql, unique_drops_sql, regain_sql, detail_tables,
                   query_results, compiled_dataframes, starting_population, report,
                   issued, eligibility_sql, waterfall_constructor, eligible_constructor,
                   first_run>>
    /\ UNCHANGED extra_vars

NextIdentifiers == SetConditions \/ AssignUniqueIdentifiers \/ CompileQueries

SpecIdentifiers == InitSmall /\ [][NextIdentifiers]_vars

----------------------------------------------------------------------------
(* The validators of EligibleMeta, called on a declaration.                *)

\* the hierarchy with an empty baseline
EmptyBaseline == <<[channel |-> Main, templates |-> <<[template |-> BA, checks |-> <<>>]>>]>>

Returned == [returned |-> TRUE]

\* what a call that raised or returned leaves with its caller
Outcome(result) == IF result = None THEN Returned ELSE result

InitTables == InitWith({EmptyBaseline}, TableDeclarations)

\* EligibleMeta.validate_tables(tables)
CallValidateTables ==
    /\ verdict = None
    /\ verdict' = Outcome(ValidateTables(tables))
    /\ UNCHANGED <<conditions, conditions_column_mappings, parsed_unique_identifiers,
                   remaining_sql, incremental_drops_sql, unique_drops_sql, regain_sql,
                   detail_tables, query_results, report_vars, issued, constructor_vars,
                   tables, runs, backend_tables, handler_vars, pc>>

NextTables == CallValidateTables

SpecTables == InitTables /\ [][NextTables]_vars

InitConditions ==
    InitOver(RawHierarchies(RawMaxTemplates, RawMainChecks, RawMaxTemplates, RawMaxChecks))

\* EligibleMeta.validate_conditions(conditions)
CallValidateConditions ==
    /\ verdict = None
    /\ verdict' = Outcome(ValidateConditions(conditions))
    /\ UNCHANGED <<conditions, conditions_column_mappings, parsed_unique_identifiers,
                   remaining_sql, incremental_drops_sql, unique_drops_sql, regain_sql,
                   detail_tables, query_results, report_vars, issued, constructor_vars,
                   tables, runs, backend_tables, handler_vars, pc>>

NextConditions == CallValidateConditions

SpecConditions == InitConditions /\ [][NextConditions]_vars

----------------------------------------------------------------------------
(* A hierarchy of any shape given to Eligible and to SQLConstructor.       *)

StructureMaxTemplates == 2
StructureMaxChecks == 1
StructureOtherTemplates == 1

InitStructure ==
    InitOver(RawHierarchies(StructureMaxTemplates, StructureMaxChecks,
                            StructureOtherTemplates, StructureMaxChecks))

\* EligibleMeta.__setattr__ is the attribute hook of the class object Eligible:
\* it runs when one of the three names is set on the class, not on an instance
EligibleMetaSetattr(target, name) ==
    target = "class" /\ name \in {"_conditions", "_tables", "_unique_identifiers"}

\* Eligible.conditions = conditions: the setter assigns self._conditions
AssignEligibleConditions ==
    /\ pc = "init"
    /\ verdict = None
    /\ IF /\ EligibleMetaSetattr("instance", "_conditions")
          /\ ValidateConditions(conditions) /= None
       THEN /\ raised' = Raise(ValidateConditions(conditions).error, issued)
            /\ pc' = "raised"
            /\ UNCHANGED verdict
       ELSE /\ verdict' = Returned
            /\ UNCHANGED <<raised, pc>>
    /\ UNCHANGED <<conditions, conditions_column_mappings, parsed_unique_identifiers,
                   remaining_sql, incremental_drops_sql, unique_drops_sql, regain_sql,
                   detail_tables, query_results, compiled_dataframes, starting_population,
                   report, issued, constructor_vars, tables, runs, backend_tables,
                   handler_vars>>

NextStructure ==
    \/ AssignEligibleConditions
    \/ SetConditions
    \/ SetConditionsWithoutMain
    \/ CompileQueries

SpecStructure == InitStructure /\ [][NextStructure]_vars

----------------------------------------------------------------------------
(* TeradataHandler and its table tracker TrackSQL, from construction to    *)
(* the end of the process.                                                 *)

MaxConnects == 2

\* the tables the pipeline creates and tracks
TableNames == {GenerateTableName(Eligibility), GenerateTableName(<<"column1">>)}

InitHandler == InitOver({EmptyBaseline})

\* the variables of the SQLConstructor and of the Waterfall
pipeline_vars ==
    <<conditions, conditions_column_mappings, parsed_unique_identifiers, remaining_sql,
      incremental_drops_sql, unique_drops_sql, regain_sql, detail_tables, query_results,
      report_vars, issued, constructor_vars, tables, verdict, runs, backend_tables, pc>>

\* TeradataHandler.connect: the context is created and cleanup is registered
\* with atexit, once per call
Connect ==
    /\ handler = "live"
    /\ hooks < MaxConnects
    /\ context' = TRUE
    /\ hooks' = hooks + 1
    /\ UNCHANGED <<tracked_tables, cleanups, handler, pipeline_vars>>

\* TrackSQL.track_table
TrackTable ==
    /\ handler = "live"
    /\ \E table_name \in TableNames :
          tracked_tables' = IF table_name \in Range(tracked_tables)
                            THEN tracked_tables
                            ELSE Append(tracked_tables, table_name)
    /\ UNCHANGED <<cleanups, hooks, context, handler, pipeline_vars>>

\* tracked_tables after clean_up: the loop leaves the list as it is
TrackedAfterCleanUp(tracked) == tracked

\* TeradataHandler.cleanup: TrackSQL.clean_up issues one DROP TABLE per tracked
\* table, a failing DROP is reported and the loop goes on; then disconnect()
Cleanup(failed) ==
    /\ cleanups' = Append(cleanups,
                          [n \in DOMAIN tracked_tables |->
                              [table |-> tracked_tables[n], failed |-> failed[n]]])
    /\ tracked_tables' = TrackedAfterCleanUp(tracked_tables)
    /\ context' = FALSE

\* the interpreter exits: the atexit registrations run, one call of cleanup each
AtExit ==
    /\ handler \in {"live", "exiting"}
    /\ hooks > 0
    /\ \E failed \in [DOMAIN tracked_tables -> BOOLEAN] : Cleanup(failed)
    /\ hooks' = hooks - 1
    /\ handler' = "exiting"
    /\ UNCHANGED pipeline_vars

\* TeradataHandler.__del__: cleanup once more when the object is collected,
\* which with a registered hook is after the hooks have run
Del ==
    /\ handler \in {"live", "exiting"}
    /\ hooks = 0
    /\ \E failed \in [DOMAIN tracked_tables -> BOOLEAN] : Cleanup(failed)
    /\ handler' = "deleted"
    /\ UNCHANGED <<hooks, pipeline_vars>>

NextHandler == Connect \/ TrackTable \/ AtExit \/ Del

SpecHandler == InitHandler /\ [][NextHandler]_vars

----------------------------------------------------------------------------
(* Reassigning the hierarchy of an SQLConstructor between accesses to its  *)
(* waterfall and eligible properties; pc names the last operation.         *)

\* SQLConstructor.conditions = value, on a constructed object
AssignConditions ==
    /\ Constructed
    /\ \E value \in SmallHierarchies :
          /\ conditions' = StampColumnNames(value)
          /\ \E order \in IterationOrders(ColumnNames(conditions')) :
                conditions_column_mappings' = Resolve(conditions', order)
    /\ pc' = "prepared"
    /\ UNCHANGED <<parsed_unique_identifiers, remaining_sql, incremental_drops_sql,
                   unique_drops_sql, regain_sql, detail_tables, query_results,
                   report_vars, issued, constructor_vars>>
    /\ UNCHANGED extra_vars

\* SQLConstructor.waterfall: built on first access, then the stored object
AccessWaterfall ==
    /\ Constructed
    /\ waterfall_constructor' =
          IF waterfall_constructor = None
          THEN [conditions |-> conditions,
                conditions_column_mappings |-> conditions_column_mappings,
                parsed_unique_identifiers |-> parsed_unique_identifiers]
          ELSE waterfall_constructor
    /\ pc' = "waterfall"
    /\ UNCHANGED <<conditions, conditions_column_mappings, parsed_unique_identifiers,
                   remaining_sql, incremental_drops_sql, unique_drops_sql, regain_sql,
                   detail_tables, query_results, report_vars, issued, unique_identifiers,
                   eligibility_sql, eligible_constructor, first_run>>
    /\ UNCHANGED extra_vars

\* SQLConstructor.eligible: built on first access, then the stored object
AccessEligible ==
    /\ Constructed
    /\ eligible_constructor' =
          IF eligible_constructor = None
          THEN [conditions |-> conditions,
                unique_identifiers |-> parsed_unique_identifiers]
          ELSE eligible_constructor
    /\ pc' = "eligible"
    /\ UNCHANGED <<conditions, conditions_column_mappings, parsed_unique_identifiers,
                   remaining_sql, incremental_drops_sql, unique_drops_sql, regain_sql,
                   detail_tables, query_results, report_vars, issued, unique_identifiers,
                   eligibility_sql, waterfall_constructor, first_run>>
    /\ UNCHANGED extra_vars

NextReassign == SetConditions \/ AssignConditions \/ AccessWaterfall \/ AccessEligible

SpecReassign == InitSmall /\ [][NextReassign]_vars

\* assignments to unique_identifiers between accesses to the waterfall compiler
NextBackend == SetConditions \/ AssignUniqueIdentifiers \/ AccessWaterfall

SpecBackend == InitSmall /\ [][NextBackend]_vars

----------------------------------------------------------------------------
(* The pipeline on hierarchies with a channel whose key is the empty       *)
(* string: 'main' first, then '' and 'promoA' in either order, or ''       *)
(* alone.                                                                  *)

EmptyKey == <<"">>

EmptyKeyHierarchies ==
    UNION { HierarchiesOver(order, 1, ExecMaxChecks, ExecMaxTotalChecks, ExecMaxTemplates)
              : order \in { <<Main, EmptyKey>>, <<Main, EmptyKey, <<"promoA">> >>,
                            <<Main, <<"promoA">>, EmptyKey>> } }

InitEmptyKey == InitOver(EmptyKeyHierarchies)

SpecEmptyKey == InitEmptyKey /\ [][NextExec]_vars

----------------------------------------------------------------------------
(* The pipeline on channels with three templates: 'main' without checks    *)
(* and 'promoA' with the templates seg1, seg2 and seg1_BA in any order,    *)
(* next to the hierarchies of InitExec.                                    *)

ThreeTemplateHierarchies ==
    { << [channel |-> Main, templates |-> <<[template |-> BA, checks |-> <<>>]>>],
         [channel |-> <<"promoA">>,
          templates |-> [j \in 1..3 |-> [template |-> names[j], checks |-> lists[j]]]] >>
        : names \in Permutations_({<<"seg1">>, <<"seg2">>, <<"seg1", "BA">>}),
          lists \in [1..3 -> CheckLists(1)] }

InitThreeTemplates ==
    InitOver(Hierarchies(ExecMaxChannels, ExecMaxTemplates, ExecMaxChecks,
                         ExecMaxTotalChecks, ExecMaxTemplates)
             \cup ThreeTemplateHierarchies)

SpecThreeTemplates == InitThreeTemplates /\ [][NextExec]_vars

----------------------------------------------------------------------------
(* The pipeline on a grain of GrainRows rows in which one check fails for  *)
(* FailingRows rows and no other check fails.                              *)

GrainRows == 100
FailingRows == 10

GrainPopulation(column_names, x) ==
    [r \in 1..GrainRows |->
        [c \in column_names |-> IF c = x /\ r <= FailingRows THEN 0 ELSE 1]]

\* Waterfall._step1_create_base_tables on that grain
CreateGrainTables ==
    /\ pc = Previous("tables")
    /\ \E x \in ColumnNames(conditions) :
          detail_tables' = [identifier \in parsed_unique_identifiers.original_without_aliases |->
                              GrainPopulation(ColumnNames(conditions), x)]
    /\ pc' = "tables"
    /\ UNCHANGED <<conditions, conditions_column_mappings, parsed_unique_identifiers,
                   remaining_sql, incremental_drops_sql, unique_drops_sql, regain_sql,
                   query_results, report_vars, constructor_vars>>
    /\ issued' = IssueAll(issued, parsed_unique_identifiers.original_without_aliases, "tables")
    /\ UNCHANGED extra_vars

NextGrain ==
    \/ SetConditions
    \/ CreateGrainTables
    \/ CalculateUniqueDrops
    \/ CalculateIncrementalDrops
    \/ CalculateRegain
    \/ CalculateRemaining

SpecGrain == InitExec /\ [][NextGrain]_vars

----------------------------------------------------------------------------
(* The scenario hierarchy: main/BA with two checks, promoA with BA (one    *)
(* check) and seg1 (one output check).                                     *)

ScenarioMain == [channel |-> Main, templates |-> <<[template |-> BA, checks |-> RawChecks(2, FALSE)]>>]

ScenarioPromoA(ba_output) ==
    [channel |-> <<"promoA">>,
     templates |-> <<[template |-> BA, checks |-> RawChecks(1, ba_output)],
                     [template |-> <<"seg1">>, checks |-> RawChecks(1, TRUE)]>>]

ScenarioHierarchies ==
    UNION { {<<ScenarioMain, ScenarioPromoA(o)>>, <<ScenarioPromoA(o), ScenarioMain>>} : o \in BOOLEAN }

InitScenario == InitOver(ScenarioHierarchies)

SpecScenario == InitScenario /\ [][Next]_vars

----------------------------------------------------------------------------
(* Vocabulary of the properties: the checks of the hierarchy by position   *)
(* (channel index, template index, check index), independent of the        *)
(* resolver's own traversal.                                               *)

Positions(h) ==
    UNION { UNION { { <<i, j, k>> : k \in DOMAIN h[i].templates[j].checks }
                    : j \in DOMAIN h[i].templates }
            : i \in DOMAIN h }

ChannelOf(h, p) == h[p[1]].channel
TemplateOf(h, p) == h[p[1]].templates[p[2]].template
CheckAt(h, p) == h[p[1]].templates[p[2]].checks[p[3]]
ColumnOf(h, p) == CheckAt(h, p).column_name

Before(p, q) ==
    \/ p[1] < q[1]
    \/ p[1] = q[1] /\ p[2] < q[2]
    \/ p[1] = q[1] /\ p[2] = q[2] /\ p[3] <= q[3]

\* the first check, in hierarchy order, that carries the column name
FirstPosition(h, column_name) ==
    CHOOSE p \in Positions(h) :
        /\ ColumnOf(h, p) = column_name
        /\ \A q \in Positions(h) : ColumnOf(h, q) = column_name => Before(p, q)

Prepared == pc /= "init"

\* DependencyEntry(c) of the check at position p
Dependency(p) == Get(conditions_column_mappings, ColumnOf(conditions, p))

MainColumns(h) == {ColumnOf(h, q) : q \in {x \in Positions(h) : ChannelOf(h, x) = Main}}

BucketNames(templates) == [n \in DOMAIN templates |-> templates[n].template]

----------------------------------------------------------------------------
(* C1 *)

\* C1: after _prepare_conditions every check carries
\* "{channel}_{template}_{1-based position}" and no two distinct checks of the
\* hierarchy carry the same column_name, also when names contain '_'.
C1_ColumnNamesUnique ==
    Prepared =>
        \A p \in Positions(conditions) :
            /\ ColumnOf(conditions, p)
                 = ChannelOf(conditions, p) \o TemplateOf(conditions, p) \o <<Str(p[3])>>
            /\ \A q \in Positions(conditions) :
                  p /= q => ColumnOf(conditions, p) /= ColumnOf(conditions, q)

----------------------------------------------------------------------------
(* C2 *)

\* C2 (as claimed): for a check c of a non-baseline channel ch and a non-'BA'
\* template t, base(c) is the baseline channel's checks plus the checks of the
\* templates named t or 'BA' of every channel other than ch, minus c; no check
\* of ch is in base(c).
C2_BaseFromOtherChannels ==
    Prepared =>
        \A p \in Positions(conditions) :
            (ChannelOf(conditions, p) /= Main /\ TemplateOf(conditions, p) /= BA) =>
                /\ Range(Dependency(p).base)
                     = (MainColumns(conditions)
                        \cup {ColumnOf(conditions, q) : q \in
                               {x \in Positions(conditions) :
                                  /\ ChannelOf(conditions, x) /= ChannelOf(conditions, p)
                                  /\ TemplateOf(conditions, x) \in {TemplateOf(conditions, p), BA}}})
                       \ {ColumnOf(conditions, p)}
                /\ \A q \in Positions(conditions) :
                      ChannelOf(conditions, q) = ChannelOf(conditions, p)
                         => ColumnOf(conditions, q) \notin Range(Dependency(p).base)

\* C2 (amended): for a column name that the resolver locates (at the first
\* check carrying it) in a non-baseline channel ch and a non-'BA' template t,
\* base is the baseline channel's checks plus the checks of the templates
\* named t or 'BA' of every channel other than 'main', ch itself included,
\* minus the column itself, each listed once.
C2_BaseFromTemplateAndBA ==
    Prepared =>
        \A n \in DOMAIN conditions_column_mappings :
            LET column_name == conditions_column_mappings[n].key
                base == conditions_column_mappings[n].value.base
                p == FirstPosition(conditions, column_name)
            IN (ChannelOf(conditions, p) /= Main /\ TemplateOf(conditions, p) /= BA) =>
                  /\ Range(base)
                       = (MainColumns(conditions)
                          \cup {ColumnOf(conditions, q) : q \in
                                 {x \in Positions(conditions) :
                                    /\ ChannelOf(conditions, x) /= Main
                                    /\ TemplateOf(conditions, x) \in {TemplateOf(conditions, p), BA}}})
                         \ {column_name}
                  /\ Distinct(base)

\* a check of a non-'BA' template whose base holds a check of its own channel
\* and a check of the same template of another channel
C2_Witness ==
    /\ Prepared
    /\ \E p, q, r \in Positions(conditions) :
          /\ ChannelOf(conditions, p) /= Main /\ TemplateOf(conditions, p) /= BA
          /\ FirstPosition(conditions, ColumnOf(conditions, p)) = p
          /\ ChannelOf(conditions, q) = ChannelOf(conditions, p)
          /\ ColumnOf(conditions, q) /= ColumnOf(conditions, p)
          /\ ColumnOf(conditions, q) \in Range(Dependency(p).base)
          /\ ChannelOf(conditions, r) \notin {Main, ChannelOf(conditions, p)}
          /\ TemplateOf(conditions, r) = TemplateOf(conditions, p)
          /\ ColumnOf(conditions, r) \in Range(Dependency(p).base)

----------------------------------------------------------------------------
(* C3 *)

\* C3: for a check c of channel 'main' or of a template 'BA', base(c) is all
\* checks of 'main' united with all checks of c's own channel, c removed and
\* no column listed twice.
C3_BaselineBase ==
    Prepared =>
        \A p \in Positions(conditions) :
            (ChannelOf(conditions, p) = Main \/ TemplateOf(conditions, p) = BA) =>
                /\ Range(Dependency(p).base)
                     = (MainColumns(conditions)
                        \cup {ColumnOf(conditions, q) : q \in
                               {x \in Positions(conditions) :
                                  ChannelOf(conditions, x) = ChannelOf(conditions, p)}})
                       \ {ColumnOf(conditions, p)}
                /\ Distinct(Dependency(p).base)

----------------------------------------------------------------------------
(* C4 *)

\* C4: in the scenario hierarchy, resolving promoA_seg1_1 yields
\* base = {main_BA_1, main_BA_2, promoA_BA_1} and empty prior and post maps.
C4_ScenarioEntry ==
    Prepared =>
        LET entry == Get(conditions_column_mappings, <<"promoA", "seg1", "1">>)
        IN /\ Range(entry.base)
                = {<<"main", "BA", "1">>, <<"main", "BA", "2">>, <<"promoA", "BA", "1">>}
           /\ Len(entry.base) = 3
           /\ entry.prior_templates = <<>>
           /\ entry.post_templates = <<>>

C4_Witness ==
    /\ Prepared
    /\ conditions \in {StampColumnNames(h) : h \in ScenarioHierarchies}
    /\ <<"promoA", "seg1", "1">> \in Range(Keys(conditions_column_mappings))
    /\ Get(conditions_column_mappings, <<"promoA", "seg1", "1">>).found

----------------------------------------------------------------------------
(* C5 *)

\* C5: the column_name of a check is never a member of its own base.
C5_OwnColumnNotInBase ==
    Prepared =>
        \A p \in Positions(conditions) :
            ColumnOf(conditions, p) \notin Range(Dependency(p).base)

\* a baseline check, a 'BA' check and a check of another template, the last
\* two with each other and the baseline check in their base
C5_Witness ==
    /\ Prepared
    /\ \E p, q, r \in Positions(conditions) :
          /\ ChannelOf(conditions, p) = Main
          /\ ChannelOf(conditions, q) /= Main /\ TemplateOf(conditions, q) = BA
          /\ ChannelOf(conditions, r) /= Main /\ TemplateOf(conditions, r) /= BA
          /\ Range(Dependency(q).base) = {ColumnOf(conditions, p), ColumnOf(conditions, r)}
          /\ Range(Dependency(r).base) = {ColumnOf(conditions, p), ColumnOf(conditions, q)}

----------------------------------------------------------------------------
(* C6 *)

\* C6: every check of the baseline channel other than c itself is a member of
\* base(c), for every check c of the dependency map.
C6_BaselineInEveryBase ==
    Prepared =>
        \A n \in DOMAIN conditions_column_mappings :
            MainColumns(conditions) \ {conditions_column_mappings[n].key}
                \subseteq Range(conditions_column_mappings[n].value.base)

\* two baseline checks, and a check of a non-'BA' template of another channel
C6_Witness ==
    /\ Prepared
    /\ Cardinality(MainColumns(conditions)) = 2
    /\ \E p \in Positions(conditions) :
          /\ ChannelOf(conditions, p) /= Main /\ TemplateOf(conditions, p) /= BA
          /\ MainColumns(conditions) \subseteq Range(Dependency(p).base)

----------------------------------------------------------------------------
(* C7 *)

\* C7 (as claimed): the dependency map has one entry per check of the
\* non-baseline channels and no entry keyed by a check of 'main'.
C7_NoBaselineKeys ==
    Prepared =>
        /\ Range(Keys(conditions_column_mappings))
             = {ColumnOf(conditions, p) : p \in
                  {x \in Positions(conditions) : ChannelOf(conditions, x) /= Main}}
        /\ Range(Keys(conditions_column_mappings)) \cap MainColumns(conditions) = {}

\* C7 (amended): the dependency map has exactly one entry per distinct column
\* name stamped on the checks of the hierarchy, the checks of 'main' included.
C7_OneEntryPerColumnName ==
    Prepared =>
        /\ Range(Keys(conditions_column_mappings))
             = {ColumnOf(conditions, p) : p \in Positions(conditions)}
        /\ Distinct(Keys(conditions_column_mappings))
        /\ MainColumns(conditions) \subseteq Range(Keys(conditions_column_mappings))

\* a map keyed by a baseline check and by a check of another channel
C7_Witness ==
    /\ Prepared
    /\ \E p, q \in Positions(conditions) :
          /\ ChannelOf(conditions, p) = Main
          /\ ChannelOf(conditions, q) /= Main
          /\ {ColumnOf(conditions, p), ColumnOf(conditions, q)}
                \subseteq Range(Keys(conditions_column_mappings))

----------------------------------------------------------------------------
(* C8 *)

NamesBetween(c, lo, hi) ==
    SelectSeq([x \in 1..(hi - lo + 1) |-> c.templates[lo + x - 1].template],
              LAMBDA name : name /= BA)

PartitionsTemplate(c, bucket) ==
    LET t == c.templates[CHOOSE j \in DOMAIN c.templates : c.templates[j].template = bucket.template]
    IN /\ Range(bucket.no_output) = {t.checks[k].column_name : k \in {x \in DOMAIN t.checks : ~t.checks[x].output}}
       /\ Range(bucket.output) = {t.checks[k].column_name : k \in {x \in DOMAIN t.checks : t.checks[x].output}}
       /\ Len(bucket.no_output) + Len(bucket.output) = Len(t.checks)

\* C8: for a check c of channel ch and template t, prior_templates(c) is keyed
\* by the templates of ch before t other than 'BA', post_templates(c) by those
\* after t other than 'BA', neither by 'BA' or t, and the no_output/output
\* lists of each key partition that template's checks by their output flag.
C8_PriorPostTemplates ==
    Prepared =>
        \A p \in Positions(conditions) :
            LET c == conditions[p[1]]
                prior == Dependency(p).prior_templates
                post == Dependency(p).post_templates
            IN /\ BucketNames(prior) = NamesBetween(c, 1, p[2] - 1)
               /\ BucketNames(post) = NamesBetween(c, p[2] + 1, Len(c.templates))
               /\ {BA, TemplateOf(conditions, p)}
                    \cap (Range(BucketNames(prior)) \cup Range(BucketNames(post))) = {}
               /\ \A n \in DOMAIN prior : PartitionsTemplate(c, prior[n])
               /\ \A n \in DOMAIN post : PartitionsTemplate(c, post[n])

----------------------------------------------------------------------------
(* C9 *)

\* C9: generate_remaining_sql applies the checks in hierarchy iteration order:
\* the previous-checks list of every check is the list of the checks before it
\* in hierarchy order, and the outer SELECT lists the checks in that order.
C9_RemainingInHierarchyOrder ==
    pc = "remaining" =>
        \A identifier \in DOMAIN remaining_sql :
            /\ remaining_sql[identifier].select = HierarchyOrder(conditions)
            /\ \A n \in DOMAIN remaining_sql[identifier].cases :
                  remaining_sql[identifier].cases[n].passing
                     = SubSeq(HierarchyOrder(conditions), 1, n)

----------------------------------------------------------------------------
(* C10 *)

\* the saved result row of one query family
ResultOf(identifier, name) ==
    LET dfs == query_results[identifier]
    IN dfs[CHOOSE n \in DOMAIN dfs : dfs[n].Index = name].data

IncrementalDropsOf(identifier) == ResultOf(identifier, "increm_drops")

AllPass(row, cols) == \A c \in Range(cols) : row[c] = 1
SomeFail(row, cols) == \E c \in Range(cols) : row[c] = 0

\* C10 (as claimed): the incremental-drop count of c is the number of rows
\* with max(c) = 0, max(b) = 1 for every b in base(c) and, for each prior
\* template of c, at least one check with max = 0.
C10_IncrementalDropCount ==
    pc = "increm_drops" =>
        \A identifier \in DOMAIN query_results :
            \A n \in DOMAIN conditions_column_mappings :
                LET c == conditions_column_mappings[n].key
                    entry == conditions_column_mappings[n].value
                    rows == detail_tables[identifier]
                IN IncrementalDropsOf(identifier)[c]
                     = Cardinality({r \in DOMAIN rows :
                          /\ rows[r][c] = 0
                          /\ AllPass(rows[r], entry.base)
                          /\ \A t \in DOMAIN entry.prior_templates :
                                SomeFail(rows[r], BucketChecks(entry.prior_templates[t]))})

\* C10 (amended): ... and, for each prior template of c that has at least one
\* check, at least one check with max = 0 (a prior template without checks
\* puts no condition on the row).
C10_IncrementalDropCountNonEmpty ==
    pc = "increm_drops" =>
        \A identifier \in DOMAIN query_results :
            \A n \in DOMAIN conditions_column_mappings :
                LET c == conditions_column_mappings[n].key
                    entry == conditions_column_mappings[n].value
                    rows == detail_tables[identifier]
                IN IncrementalDropsOf(identifier)[c]
                     = Cardinality({r \in DOMAIN rows :
                          /\ rows[r][c] = 0
                          /\ AllPass(rows[r], entry.base)
                          /\ \A t \in DOMAIN entry.prior_templates :
                                BucketChecks(entry.prior_templates[t]) /= <<>>
                                   => SomeFail(rows[r], BucketChecks(entry.prior_templates[t]))})

\* a check with a base check and a prior-template check that drops both rows
\* of a two-row table, next to a check that drops none of them
C10_Witness ==
    /\ pc = "increm_drops"
    /\ \E identifier \in DOMAIN query_results :
          \E n, m \in DOMAIN conditions_column_mappings :
              LET c == conditions_column_mappings[n].key
                  d == conditions_column_mappings[m].key
                  entry == conditions_column_mappings[n].value
              IN /\ entry.base /= <<>>
                 /\ entry.prior_templates /= <<>>
                 /\ BucketChecks(entry.prior_templates[1]) /= <<>>
                 /\ IncrementalDropsOf(identifier)[c] = 2
                 /\ IncrementalDropsOf(identifier)[d] = 0

----------------------------------------------------------------------------
(* C11 *)

RegainOf(identifier) == ResultOf(identifier, "regain")

\* the CASE WHEN condition of c in the incremental-drop query
IncrementalDropCondition(identifier, c) ==
    LET cases == incremental_drops_sql[identifier]
    IN cases[CHOOSE n \in DOMAIN cases : cases[n].check = c].conditions

\* the checks of all buckets of a template map, taken together
AllBucketChecks(templates) == Flatten([t \in DOMAIN templates |-> BucketChecks(templates[t])])

\* C11 (as claimed): the regain count of c is the number of rows that satisfy
\* c's incremental-drop condition and have at least one failing check among
\* the checks of c's post-template buckets taken together.
C11_RegainCount ==
    pc = "regain" =>
        \A identifier \in DOMAIN regain_sql :
            \A n \in DOMAIN conditions_column_mappings :
                LET c == conditions_column_mappings[n].key
                    entry == conditions_column_mappings[n].value
                    rows == detail_tables[identifier]
                IN RegainOf(identifier)[c]
                     = Cardinality({r \in DOMAIN rows :
                          /\ Holds(rows[r], IncrementalDropCondition(identifier, c))
                          /\ SomeFail(rows[r], AllBucketChecks(entry.post_templates))})

\* C11 (amended): the regain count of c is the number of rows that satisfy
\* c's incremental-drop condition and have, in every post template of c that
\* has checks, at least one failing check; post templates without checks put
\* no condition on the row.
C11_RegainCountPerPostTemplate ==
    pc = "regain" =>
        \A identifier \in DOMAIN regain_sql :
            \A n \in DOMAIN conditions_column_mappings :
                LET c == conditions_column_mappings[n].key
                    entry == conditions_column_mappings[n].value
                    rows == detail_tables[identifier]
                IN RegainOf(identifier)[c]
                     = Cardinality({r \in DOMAIN rows :
                          /\ Holds(rows[r], IncrementalDropCondition(identifier, c))
                          /\ \A t \in DOMAIN entry.post_templates :
                                BucketChecks(entry.post_templates[t]) /= <<>>
                                   => SomeFail(rows[r], BucketChecks(entry.post_templates[t]))})

\* a check with two post templates that have checks, and two rows that both
\* satisfy its incremental-drop condition and fail a post-template check,
\* only one of them in both post templates: the regain count is 1
C11_Witness ==
    /\ pc = "regain"
    /\ \E identifier \in DOMAIN regain_sql :
          \E n \in DOMAIN conditions_column_mappings :
              LET c == conditions_column_mappings[n].key
                  entry == conditions_column_mappings[n].value
                  rows == detail_tables[identifier]
              IN /\ Len(entry.post_templates) = 2
                 /\ \A t \in DOMAIN entry.post_templates :
                       BucketChecks(entry.post_templates[t]) /= <<>>
                 /\ Len(rows) = 2
                 /\ \A r \in DOMAIN rows :
                       /\ Holds(rows[r], IncrementalDropCondition(identifier, c))
                       /\ SomeFail(rows[r], AllBucketChecks(entry.post_templates))
                 /\ IncrementalDropsOf(identifier)[c] = 2
                 /\ RegainOf(identifier)[c] = 1

----------------------------------------------------------------------------
(* C12 *)

UniqueDropsOf(identifier) == ResultOf(identifier, "unique_drops")
RemainingOf(identifier) == ResultOf(identifier, "remaining")

FailingRowsOf(rows, c) == {r \in DOMAIN rows : rows[r][c] = 0}

\* C12: on a grain of 100 rows in which check X fails for exactly 10 rows and
\* no other check fails in any row, unique_drop(X) = 10, incremental_drop(X)
\* = 10 and remaining(X) = 90, whichever check of the hierarchy X is.
C12_SingleFailingCheck ==
    pc = "step2_done" =>
        \A identifier \in DOMAIN detail_tables :
            LET rows == detail_tables[identifier]
            IN \A x \in ColumnNames(conditions) :
                  ( /\ Len(rows) = GrainRows
                    /\ Cardinality(FailingRowsOf(rows, x)) = FailingRows
                    /\ \A c \in ColumnNames(conditions) \ {x} : FailingRowsOf(rows, c) = {} )
                  => /\ UniqueDropsOf(identifier)[x] = FailingRows
                     /\ IncrementalDropsOf(identifier)[x] = FailingRows
                     /\ RemainingOf(identifier)[x] = GrainRows - FailingRows

----------------------------------------------------------------------------
(* C13 *)

\* C13: the starting_population that step 3 computes as incremental_drop(first
\* check) + remaining(first check) equals the number of rows of the grain's
\* detail table, and the cumulative drop of each check is that
\* starting_population minus the check's remaining value.
C13_StartingPopulationIsTotalRows ==
    pc = "step3_done" =>
        \A identifier \in DOMAIN compiled_dataframes :
            /\ starting_population = Len(detail_tables[identifier])
            /\ \A check \in DOMAIN compiled_dataframes[identifier] :
                  compiled_dataframes[identifier][check].cumul_drops
                     = starting_population - RemainingOf(identifier)[check]

----------------------------------------------------------------------------
(* C14 *)

\* a hierarchy whose checks carry distinct column names and whose dependency
\* map lists them in hierarchy order
CorrectlyFormed ==
    /\ Distinct(HierarchyOrder(conditions))
    /\ Keys(conditions_column_mappings) = HierarchyOrder(conditions)

\* C14: for a correctly-formed hierarchy and any population, the sum
\* incremental_drop(c) + remaining(c) is the same for every check c of the
\* grain's result table.
C14_ConstantSum ==
    (pc = "step2_done" /\ CorrectlyFormed) =>
        \A identifier \in DOMAIN query_results :
            \A c, d \in Range(Keys(conditions_column_mappings)) :
                IncrementalDropsOf(identifier)[c] + RemainingOf(identifier)[c]
                   = IncrementalDropsOf(identifier)[d] + RemainingOf(identifier)[d]

----------------------------------------------------------------------------
(* C15 *)

NotFoundChecks == {conditions_column_mappings[n].key :
                      n \in {m \in DOMAIN conditions_column_mappings :
                                ~conditions_column_mappings[m].value.found}}

FoundChecks == Range(Keys(conditions_column_mappings)) \ NotFoundChecks

\* the checks with an aggregate in a generated grain query
Aggregates(cases) == [n \in DOMAIN cases |-> cases[n].check]

\* a generator has run: its grain queries exist, each with exactly one
\* aggregate per found check and none for a NotFound check
SkipsNotFound(sql) ==
    /\ sql /= None
    /\ \A identifier \in DOMAIN sql :
          /\ Range(Aggregates(sql[identifier])) = FoundChecks
          /\ Len(Aggregates(sql[identifier])) = Cardinality(FoundChecks)

\* C15: if an entry of the dependency map is marked NotFound, each of the
\* four generators completes without raising and emits no aggregate for that
\* check, and exactly one aggregate per grain query for every other check.
C15_NotFoundSkipped ==
    NotFoundChecks /= {} =>
        /\ raised = None
        /\ pc \in {"unique_drops", "increm_drops", "regain", "step2_done"}
              => SkipsNotFound(unique_drops_sql)
        /\ pc \in {"increm_drops", "regain", "step2_done"}
              => SkipsNotFound(incremental_drops_sql)
        /\ pc \in {"regain", "step2_done"} => SkipsNotFound(regain_sql)
        /\ pc = "step2_done" => SkipsNotFound([identifier \in DOMAIN remaining_sql |->
                                                 remaining_sql[identifier].cases])

----------------------------------------------------------------------------
(* C16 *)

\* C16: compiling the same hierarchy twice with no mutation in between yields
\* identical output: the dependency map, with the order of its keys, and the
\* unique-drop, incremental-drop, regain, remaining and eligibility queries of
\* the second run are those of the first.
C16_SameOutputTwice ==
    (pc = "compiled" /\ first_run /= None) => Output = first_run

----------------------------------------------------------------------------
(* C17 *)

\* C17: after any sequence of hierarchy reassignments and accesses, the
\* compiler object an access to SQLConstructor.waterfall or
\* SQLConstructor.eligible returns uses the hierarchy, and the dependency map,
\* of the most recently assigned hierarchy.
C17_AccessUsesLatestHierarchy ==
    /\ pc = "waterfall" =>
          /\ waterfall_constructor.conditions = conditions
          /\ waterfall_constructor.conditions_column_mappings = conditions_column_mappings
    /\ pc = "eligible" => eligible_constructor.conditions = conditions

----------------------------------------------------------------------------
(* C18 *)

\* the order of the query families the claim states
ClaimedOrder == <<"tables", "unique_drops", "increm_drops", "regain", "remaining">>

\* the families of the rows of a grain's result list
ResultLabels(identifier) ==
    [n \in DOMAIN query_results[identifier] |-> query_results[identifier][n].Index]

----------------------------------------------------------------------------
(* C19 *)

ExecutorRaised == raised /= None /\ raised.error = "ExecutionError"

\* C19: if the query executor raises during a query of generate_waterfall, the
\* error reaches the caller, no query is issued after the failing one, no
\* dataframe is assembled and no report is written in that run.
C19_ExecutorErrorAborts ==
    ExecutorRaised =>
        /\ pc = "raised"
        /\ Len(issued) = raised.queries
        /\ compiled_dataframes = <<>>
        /\ starting_population = None
        /\ report = None

\* the executor raised on the regain query, after the unique-drop and the
\* incremental-drop rows were saved
C19_Witness ==
    /\ ExecutorRaised
    /\ issued[Len(issued)].stage = "regain"
    /\ \E identifier \in DOMAIN query_results : Len(query_results[identifier]) = 2

----------------------------------------------------------------------------
(* C20 *)

\* C20: an identifier spec that names an alias outside the table aliases, or
\* one column under two aliases, is rejected when it is assigned: it is never
\* stored, never parsed, and no query text is compiled from it.
C20_InvalidIdentifiersRejected ==
    /\ ValidateUniqueIdentifiers(unique_identifiers, TableAliases) = None
    /\ \A part \in parsed_unique_identifiers.with_aliases : part.alias \in TableAliases
    /\ eligibility_sql /= None =>
          \A n \in DOMAIN eligibility_sql.identifiers :
              eligibility_sql.identifiers[n].alias \in TableAliases

----------------------------------------------------------------------------
(* C21 *)

\* the FROM participants over all entries of 'tables' and 'work_tables'
FromParticipants(declaration) ==
    {<<"tables", i>> : i \in {j \in DOMAIN declaration.tables :
                                  declaration.tables[j].join_type = "FROM"}}
    \cup {<<"work_tables", i>> : i \in {j \in DOMAIN declaration.work_tables :
                                         declaration.work_tables[j].join_type = "FROM"}}

\* C21: validate_tables raises for every declaration whose number of FROM
\* participants, over all entries of 'tables' and 'work_tables', is zero or
\* more than one, and returns only when that number is exactly one.
C21_ExactlyOneFrom ==
    verdict /= None =>
        /\ Cardinality(FromParticipants(tables)) /= 1 => verdict /= Returned
        /\ verdict = Returned => Cardinality(FromParticipants(tables)) = 1

----------------------------------------------------------------------------
(* C23 *)

\* the baseline part of a hierarchy passes validate_conditions
BaselineValid(h) ==
    /\ \E i \in DOMAIN h : h[i].channel = Main
    /\ \A i \in DOMAIN h : h[i].channel = Main => ValidateMain(h[i].templates) = None

\* a template on its own: at most one output check, and then the last one
TemplateOnItsOwn(checks) ==
    /\ OutputTrueCount(checks) <= 1
    /\ OutputTrueCount(checks) = 1 => checks[Len(checks)].output

NonBaselineAcceptable(h) ==
    \A i \in DOMAIN h : h[i].channel /= Main =>
        \A j \in DOMAIN h[i].templates :
            h[i].templates[j].template /= BA => TemplateOnItsOwn(h[i].templates[j].checks)

\* C23: on a hierarchy with a valid baseline, validate_conditions returns
\* exactly when every non-'BA' template of the other channels, taken on its
\* own, has at most one output check and has it last.
C23_PerTemplateOutputRule ==
    (verdict /= None /\ BaselineValid(conditions)) =>
        (verdict = Returned <=> NonBaselineAcceptable(conditions))

----------------------------------------------------------------------------
(* C22 *)

Stamped(h) ==
    \E i \in DOMAIN h : \E j \in DOMAIN h[i].templates :
        \E check \in Range(h[i].templates[j].checks) : check.column_name /= None

\* C22: a hierarchy without 'main', with a template other than 'BA' under
\* 'main' or with an output check under 'main' is rejected when it is given to
\* Eligible or SQLConstructor: the assignment does not return, no column name
\* is stamped, no dependency map is built and no query is compiled.
C22_InvalidBaselineRejected ==
    ~BaselineValid(conditions) =>
        /\ verdict /= Returned
        /\ pc \in {"init", "raised"}
        /\ ~Stamped(conditions)
        /\ eligibility_sql = None

----------------------------------------------------------------------------
(* C24 *)

\* the CASE WHEN condition of c in the regain query
RegainCondition(identifier, c) ==
    LET cases == regain_sql[identifier]
    IN cases[CHOOSE n \in DOMAIN cases : cases[n].check = c].conditions

\* C24: for every check c and every population, regain(c) <= incremental_drop(c)
\* <= unique_drop(c); row by row, the regain condition implies the
\* incremental-drop condition, which implies max(c) = 0.
C24_RegainWithinIncrementalWithinUnique ==
    pc = "regain" =>
        \A identifier \in DOMAIN regain_sql :
            \A n \in DOMAIN conditions_column_mappings :
                LET c == conditions_column_mappings[n].key
                    rows == detail_tables[identifier]
                IN /\ RegainOf(identifier)[c] <= IncrementalDropsOf(identifier)[c]
                   /\ IncrementalDropsOf(identifier)[c] <= UniqueDropsOf(identifier)[c]
                   /\ \A r \in DOMAIN rows :
                         /\ Holds(rows[r], RegainCondition(identifier, c))
                              => Holds(rows[r], IncrementalDropCondition(identifier, c))
                         /\ Holds(rows[r], IncrementalDropCondition(identifier, c))
                              => rows[r][c] = 0

\* one check regains a row but not every row it drops incrementally, another
\* drops incrementally fewer rows than it fails
C24_Witness ==
    /\ pc = "regain"
    /\ \E identifier \in DOMAIN regain_sql :
          \E n, m \in DOMAIN conditions_column_mappings :
              LET c == conditions_column_mappings[n].key
                  d == conditions_column_mappings[m].key
              IN /\ 1 <= RegainOf(identifier)[c]
                 /\ RegainOf(identifier)[c] < IncrementalDropsOf(identifier)[c]
                 /\ IncrementalDropsOf(identifier)[d] < UniqueDropsOf(identifier)[d]

----------------------------------------------------------------------------
(* C25 *)

\* C25: for every check c of a hierarchy that validate_conditions accepts and
\* whose column names are distinct, no column is both in base(c) and in a
\* prior- or post-template bucket of c, so that "every base check passes and
\* some check of the bucket fails" can hold of a row.
C25_BaseDisjointFromBuckets ==
    (pc = "prepared" /\ ValidateConditions(conditions) = None
                    /\ Distinct(HierarchyOrder(conditions))) =>
        \A n \in DOMAIN conditions_column_mappings :
            LET entry == conditions_column_mappings[n].value
            IN entry.found =>
                 Range(entry.base)
                   \cap (Range(AllBucketChecks(entry.prior_templates))
                         \cup Range(AllBucketChecks(entry.post_templates))) = {}

----------------------------------------------------------------------------
(* C26 *)

\* the CASE WHEN condition of a case statement of the remaining query
PassingCondition(case) ==
    [i \in DOMAIN case.passing |-> Equals(case.passing[i], 1)]
    \o (IF case.prior_failed = <<>> THEN <<>> ELSE <<[cols |-> case.prior_failed, val |-> 0]>>)

\* C26: in the remaining query of a correctly-formed hierarchy, for every
\* check c with a check in its prior templates, some row satisfies the passing
\* condition of c; that is, the previous-checks list of c does not hold every
\* check of c's prior templates.
C26_PassingConditionSatisfiable ==
    (pc = "remaining" /\ CorrectlyFormed) =>
        \A identifier \in DOMAIN remaining_sql :
            \A n \in DOMAIN remaining_sql[identifier].cases :
                LET case == remaining_sql[identifier].cases[n]
                IN case.prior_failed /= <<>> =>
                     /\ \E row \in Rows(ColumnNames(conditions)) :
                           Holds(row, PassingCondition(case))
                     /\ ~(Range(case.prior_failed) \subseteq Range(case.passing))

----------------------------------------------------------------------------
(* C27 *)

\* C27: after every completed run of generate_waterfall, a later run on the
\* same object included, the result list of each grain holds exactly four
\* tables, one per query family.
C27_FourResultTables ==
    pc = "step4_done" =>
        \A identifier \in DOMAIN query_results :
            ResultLabels(identifier) = Tail(ClaimedOrder)

----------------------------------------------------------------------------
(* C28 *)

\* C28: after construction and after any assignments to unique_identifiers,
\* every grain of the parsed identifiers has a backend table name, and every
\* detail query of the waterfall compiler, obtained before or after the
\* assignment, names a table.
C28_EveryGrainHasBackendTable ==
    /\ \A identifier \in parsed_unique_identifiers.original_without_aliases :
          BackendGet(backend_tables, identifier) /= None
    /\ waterfall_constructor /= None =>
          LET queries == GenerateUniqueIdentifierDetailsSql(
                             backend_tables, waterfall_constructor.parsed_unique_identifiers)
          IN \A identifier \in DOMAIN queries : queries[identifier].table_name /= None

----------------------------------------------------------------------------
(* C29 *)

\* C29: after _prepare_conditions the keys of the dependency map are the
\* column names stamped on the checks, and every entry is a record of base,
\* prior_templates and post_templates, never the 'Check not found' marker.
C29_EveryColumnLocated ==
    pc = "prepared" =>
        /\ Range(Keys(conditions_column_mappings)) = ColumnNames(conditions)
        /\ \A n \in DOMAIN conditions_column_mappings :
              conditions_column_mappings[n].value.found

----------------------------------------------------------------------------
(* C30 *)

\* the DROP TABLE statements issued for a table over all runs of clean_up
DropsOf(table) ==
    {<<r, n>> \in UNION {{<<i, j>> : j \in DOMAIN cleanups[i]} : i \in DOMAIN cleanups} :
        cleanups[r][n].table = table}

\* C30: tracked_tables never holds a name twice; every run of clean_up issues
\* a DROP for each table tracked so far, whether or not an earlier DROP of the
\* run failed; and over the life of the handler at most one DROP TABLE is
\* issued per tracked table, however often cleanup runs.
C30_TrackerDropsOnce ==
    /\ Distinct(tracked_tables)
    /\ \A r \in DOMAIN cleanups :
          [n \in DOMAIN cleanups[r] |-> cleanups[r][n].table]
             = SubSeq(tracked_tables, 1, Len(cleanups[r]))
    /\ \A table \in TableNames : Cardinality(DropsOf(table)) <= 1

====
